---------------------------- MODULE Spec2Model ----------------------------
(***************************************************************************)
(* A model of da_engine.Analysis (src/da_engine/da_engine.py): the         *)
(* constructor (input resolver), update(), EnKF() and Sqrt_KF().           *)
(*                                                                         *)
(* Numbers are exact rationals <<n, d>> (d > 0, lowest terms) extended     *)
(* with the IEEE non-finite values the code can produce: <<1,0>> = inf,    *)
(* <<-1,0>> = -inf, <<0,0>> = nan.  Rounding is not modelled.              *)
(*                                                                         *)
(* An ndarray is a record [tag, shape, known, data, buf]: shape is the     *)
(* numpy shape tuple, data the row-major elements, buf the buffer the      *)
(* array views (one of the caller's arrays, one the object owns, or        *)
(* "fresh" for a new allocation).  known = FALSE marks an array whose      *)
(* elements the model cannot compute in rationals (a factor of a general   *)
(* SVD, a random rotation); its shape is still exact.  None and a raised   *)
(* exception are the records [tag |-> "none"] and                          *)
(* [tag |-> "err", kind |-> ...].                                          *)
(***************************************************************************)
EXTENDS Integers, Sequences, FiniteSets, TLC

-----------------------------------------------------------------------------
(* Bounds of the model *)

\* rows of H, E, D, R and length of d range over 1..MaxM
MaxM == 2
\* columns (ensemble sizes) range over 2..MaxN
MaxN == 2
\* rows of K range over 1..MaxStates
MaxStates == 2
\* number of distinct np.random.randn draws enumerated
MaxSeed == 2
\* calls of update() on one object
MaxUpdates == 1
\* truncation alone: up to MaxLen squared singular values in 0..MaxSigma
MaxLen == 3
MaxSigma == 3

-----------------------------------------------------------------------------
(* Evaluation helpers: F applied to the value of v (and w), computed once *)

With(v, F(_)) == CHOOSE r \in {F(x) : x \in {v}} : TRUE

With2(v, w, F(_, _)) == CHOOSE r \in {F(x, y) : x \in {v}, y \in {w}} : TRUE

-----------------------------------------------------------------------------
(* Extended rational arithmetic (numpy float64 without rounding) *)

Abs(x) == IF x < 0 THEN -x ELSE x

Sign(x) == IF x < 0 THEN -1 ELSE IF x > 0 THEN 1 ELSE 0

RECURSIVE Gcd(_, _)
Gcd(a, b) == IF b = 0 THEN a ELSE Gcd(b, a % b)

\* the number n/d in canonical form; d = 0 gives inf, -inf or nan
Reduce(n, d, g) == <<(Sign(d) * n) \div g, (Sign(d) * d) \div g>>

Norm(n, d) ==
    IF d = 0 THEN <<Sign(n), 0>> ELSE Reduce(n, d, Gcd(Abs(n), Abs(d)))

Rat(i) == <<i, 1>>
NaN == <<0, 0>>
Inf == <<1, 0>>
Zero == <<0, 1>>
One == <<1, 1>>

IsNaN(a) == a = NaN

RAdd(a, b) ==
    IF a[2] = 0 \/ b[2] = 0
    THEN IF IsNaN(a) \/ IsNaN(b) THEN NaN
         ELSE IF a[2] = 0 /\ b[2] = 0 THEN (IF a = b THEN a ELSE NaN)
         ELSE IF a[2] = 0 THEN a ELSE b
    ELSE Norm(a[1] * b[2] + b[1] * a[2], a[2] * b[2])

RNeg(a) == <<-a[1], a[2]>>

RSub(a, b) == RAdd(a, RNeg(b))

RMul(a, b) == Norm(a[1] * b[1], a[2] * b[2])

\* a / b as numpy divides floats: x/0 = +-inf, 0/0 = nan, x/inf = 0
RDiv(a, b) ==
    IF b[1] < 0 THEN Norm(-(a[1] * b[2]), a[2] * (-b[1]))
    ELSE Norm(a[1] * b[2], a[2] * b[1])

\* a >= b; any comparison with nan is False
RGe(a, b) ==
    IF IsNaN(a) \/ IsNaN(b) THEN FALSE
    ELSE IF a[2] = 0 /\ b[2] = 0 THEN a[1] >= b[1]
    ELSE IF a[2] = 0 THEN a[1] > 0
    ELSE IF b[2] = 0 THEN b[1] < 0
    ELSE a[1] * b[2] >= b[1] * a[2]

RECURSIVE RSumSeq(_)
RSumSeq(s) ==
    IF s = <<>> THEN Zero ELSE RAdd(Head(s), RSumSeq(Tail(s)))

\* integer square root when n is a perfect square, else -1
ISqrt(n) ==
    IF \E r \in 0..n : r * r = n THEN CHOOSE r \in 0..n : r * r = n ELSE -1

\* can sqrt(a) be written as a rational
HasRSqrt(a) ==
    a[2] = 0 \/ (a[1] >= 0 /\ ISqrt(a[1]) >= 0 /\ ISqrt(a[2]) >= 0)

RSqrt(a) ==
    IF a[2] = 0 THEN (IF a = Inf THEN Inf ELSE NaN)
    ELSE <<ISqrt(a[1]), ISqrt(a[2])>>

-----------------------------------------------------------------------------
(* Values: ndarrays, None, raised exceptions *)

None == [tag |-> "none"]

Raise(kind) == [tag |-> "err", kind |-> kind]

IsErr(v) == v.tag = "err"
IsNone(v) == v.tag = "none"
IsArr(v) == v.tag = "arr"

RECURSIVE Prod(_)
Prod(shape) == IF shape = <<>> THEN 1 ELSE Head(shape) * Prod(Tail(shape))

\* a new array whose elements are known
Arr(shape, data, buf) ==
    [tag |-> "arr", shape |-> shape, known |-> TRUE, data |-> data, buf |-> buf]

\* a new array of which only the shape is known
Opaque(shape) ==
    [tag |-> "arr", shape |-> shape, known |-> FALSE, data |-> <<>>, buf |-> "fresh"]

\* a new array with computed elements, unknown as soon as an operand was
Fresh(shape, known, data) ==
    IF known THEN Arr(shape, data, "fresh") ELSE Opaque(shape)

\* a Python float as a 0-d array
Scalar(x) == Arr(<<>>, <<x>>, "fresh")

NDim(a) == Len(a.shape)

Size(a) == Prod(a.shape)

\* `1 in a.shape`
OneInShape(a) == \E k \in 1..Len(a.shape) : a.shape[k] = 1

\* a shape aligned to two trailing axes, as broadcasting aligns it
Shape2(shape) ==
    IF Len(shape) = 0 THEN <<1, 1>>
    ELSE IF Len(shape) = 1 THEN <<1, shape[1]>>
    ELSE shape

\* element (i, j) of a, broadcast along axes of length 1
At2(a, i, j) ==
    With(Shape2(a.shape), LAMBDA s :
        a.data[((IF s[1] = 1 THEN 1 ELSE i) - 1) * s[2] + (IF s[2] = 1 THEN 1 ELSE j)])

\* do the shapes s and t (two axes each) broadcast together
Broadcastable(s, t) ==
    /\ (s[1] = t[1] \/ s[1] = 1 \/ t[1] = 1)
    /\ (s[2] = t[2] \/ s[2] = 1 \/ t[2] = 1)

\* the two axes of the broadcast of s and t
BroadcastShape(s, t) ==
    <<IF s[1] = 1 THEN t[1] ELSE s[1], IF s[2] = 1 THEN t[2] ELSE s[2]>>

\* the last nd axes of a shape of two axes
LastAxes(s, nd) == IF nd = 0 THEN <<>> ELSE IF nd = 1 THEN <<s[2]>> ELSE s

\* numpy elementwise a F b with broadcasting; a new array
Elementwise(F(_, _), a, b) ==
    IF IsErr(a) THEN a
    ELSE IF IsErr(b) THEN b
    ELSE IF IsNone(a) \/ IsNone(b) THEN Raise("TypeError")
    ELSE IF ~Broadcastable(Shape2(a.shape), Shape2(b.shape)) THEN Raise("ValueError")
    ELSE With(BroadcastShape(Shape2(a.shape), Shape2(b.shape)), LAMBDA s :
             Fresh(LastAxes(s, IF NDim(a) > NDim(b) THEN NDim(a) ELSE NDim(b)),
                   a.known /\ b.known,
                   [k \in 1..(s[1] * s[2]) |->
                       F(At2(a, ((k - 1) \div s[2]) + 1, ((k - 1) % s[2]) + 1),
                         At2(b, ((k - 1) \div s[2]) + 1, ((k - 1) % s[2]) + 1))]))

NpAdd(a, b) == Elementwise(RAdd, a, b)
NpSub(a, b) == Elementwise(RSub, a, b)
NpMul(a, b) == Elementwise(RMul, a, b)

\* a.reshape(shape): a view of the same buffer
Reshape(a, shape) ==
    IF IsErr(a) THEN a
    ELSE IF IsNone(a) THEN Raise("AttributeError")
    ELSE IF Prod(shape) # Size(a) THEN Raise("ValueError")
    ELSE [a EXCEPT !.shape = shape]

\* np.squeeze(a): drops the axes of length 1; a view
Squeeze(a) ==
    [a EXCEPT !.shape = SelectSeq(a.shape, LAMBDA n : n # 1)]

\* a[:, np.newaxis] of a 1-D array; a view
NewAxis(a) ==
    IF IsErr(a) THEN a ELSE [a EXCEPT !.shape = <<a.shape[1], 1>>]

\* a.T of a 2-D array
Transpose(a) ==
    IF IsErr(a) THEN a
    ELSE With2(a.shape[1], a.shape[2], LAMBDA r, c :
             [a EXCEPT !.shape = <<c, r>>,
                       !.data = IF a.known
                                THEN [k \in 1..(r * c) |->
                                        a.data[((k - 1) % r) * c + ((k - 1) \div r) + 1]]
                                ELSE <<>>])

\* np.mean(a, axis=1) of a 2-D array: the mean of each row
MeanAxis1(a) ==
    IF IsErr(a) THEN a
    ELSE IF IsNone(a) THEN Raise("TypeError")
    ELSE IF NDim(a) < 2 THEN Raise("AxisError")
    ELSE With2(a.shape[1], a.shape[2], LAMBDA r, c :
             Fresh(<<r>>, a.known,
                   [i \in 1..r |->
                       RDiv(RSumSeq([j \in 1..c |-> a.data[(i - 1) * c + j]]),
                            Rat(c))]))

\* the variance of each row of a known 2-D array
Variances(a) ==
    With(MeanAxis1(a), LAMBDA mu :
        [i \in 1..a.shape[1] |->
            RDiv(RSumSeq([j \in 1..a.shape[2] |->
                     With(RSub(a.data[(i - 1) * a.shape[2] + j], mu.data[i]),
                          LAMBDA e : RMul(e, e))]),
                 Rat(a.shape[2]))])

\* np.std(a, axis=1) of a 2-D array; known only where the root is rational
StdAxis1(a) ==
    IF IsErr(a) THEN a
    ELSE IF IsNone(a) THEN Raise("TypeError")
    ELSE IF ~a.known THEN Opaque(<<a.shape[1]>>)
    ELSE With(Variances(a), LAMBDA var :
             Fresh(<<a.shape[1]>>, \A i \in 1..a.shape[1] : HasRSqrt(var[i]),
                   [i \in 1..a.shape[1] |-> RSqrt(var[i])]))

\* evaluate `first` for the exception it may raise, then continue with `rest`
Then(first, rest) == IF IsErr(first) THEN first ELSE rest

-----------------------------------------------------------------------------
(* Analysis.__init__: the input resolver *)

\* method.lower() on the method names the model enumerates
Lower(method) == IF method = "EnKF" THEN "enkf" ELSE method

\* np.random.randn(m, n): one of the enumerated draws
Randn(m, n, seed) ==
    Arr(<<m, n>>,
        [k \in 1..(m * n) |-> IF (k + seed) % 2 = 0 THEN Rat(seed) ELSE Rat(-seed)],
        "fresh")

\* lines 42-52: the dimension checks on E and R.  Each mismatch builds a
\* ValueError and drops it; with R given and E absent, line 50 reads E.shape
ShapeChecks(E, R) ==
    IF ~IsNone(E) THEN E
    ELSE IF ~IsNone(R) THEN Raise("AttributeError")
    ELSE None

\* lines 69 and 87: E - E.mean(axis=1).reshape(m1, 1) is computed and
\* dropped; E stays as it was unless the statement raises
Recentre(E, m1) ==
    Then(NpSub(E, Reshape(MeanAxis1(E), <<m1, 1>>)), E)

\* lines 57-69: d absent, E derived from D
ErrorsFromD(D, m1) ==
    IF IsNone(D) THEN [d |-> Raise("AttributeError"), E |-> None]
    ELSE With(MeanAxis1(D), LAMBDA d :
             [d |-> d, E |-> Recentre(NpSub(D, Reshape(d, <<m1, 1>>)), m1)])

\* lines 73-74
ColumnOfd(d, m1) ==
    IF OneInShape(d) \/ NDim(d) = 1 THEN Reshape(d, <<m1, 1>>) ELSE d

\* lines 76-84: E synthesized from err_std or err_perc, else left None
ErrorsFromSpec(H, err_std, err_perc, m1, N1, seed) ==
    IF ~IsNone(err_std) THEN NpMul(err_std, Randn(m1, N1, seed))
    ELSE IF ~IsNone(err_perc)
         THEN NpMul(NpMul(err_perc, StdAxis1(H)), Randn(m1, N1, seed))
         ELSE None

\* lines 85-87: E = D - d
ErrorsFromDd(D, d, m1) == Recentre(NpSub(D, d), m1)

\* lines 98-101: d squeezed and reshaped to a column.  np.rank exists only
\* in numpy builds before 1.18 (rankOk); len() of a 0-d array raises
SqueezeToColumn(d, rankOk) ==
    IF IsNone(d) THEN Raise("AttributeError")
    ELSE With(IF OneInShape(d)
              THEN IF ~rankOk THEN Raise("AttributeError")
                   ELSE IF NDim(d) > 1 THEN Squeeze(d) ELSE d
              ELSE d,
              LAMBDA sq :
                 IF IsErr(sq) THEN sq
                 ELSE IF NDim(sq) = 0 THEN Raise("TypeError")
                 ELSE Reshape(sq, <<sq.shape[1], 1>>))

\* lines 93-103: D = d + E when D is absent
GenerateD(D, d, E, rankOk) ==
    IF ~IsNone(D) THEN [d |-> d, D |-> D]
    ELSE With(SqueezeToColumn(d, rankOk), LAMBDA col : [d |-> col, D |-> NpAdd(col, E)])

\* lines 42-87: [d, E] as resolved before D is generated
Resolve(a, seed) ==
    With2(a.H.shape[1], a.H.shape[2], LAMBDA m1, N1 :
        With(ShapeChecks(a.E, a.R), LAMBDA chk :
            IF ~IsNone(chk) THEN [d |-> a.d, E |-> chk]
            ELSE IF IsNone(a.d) THEN ErrorsFromD(a.D, m1)
            ELSE With(ColumnOfd(a.d, m1), LAMBDA d :
                     IF IsErr(d) THEN [d |-> d, E |-> None]
                     ELSE IF IsNone(a.D)
                     THEN [d |-> d,
                           E |-> ErrorsFromSpec(a.H, a.err_std, a.err_perc, m1, N1, seed)]
                     ELSE [d |-> d, E |-> ErrorsFromDd(a.D, d, m1)])))

\* lines 38-115: the object built by Analysis(...), or the exception raised.
\* Line 90 builds a ValueError for an unsupported method and drops it
AnalysisInit(a, seed, rankOk) ==
    With(Resolve(a, seed), LAMBDA res :
        IF IsErr(res.d) THEN res.d
        ELSE IF IsErr(res.E) THEN res.E
        ELSE With(GenerateD(a.D, res.d, res.E, rankOk), LAMBDA gen :
                 IF IsErr(gen.d) THEN gen.d
                 ELSE IF IsErr(gen.D) THEN gen.D
                 ELSE [tag |-> "obj", K |-> a.K, H |-> a.H, R |-> a.R, E |-> res.E,
                       D |-> gen.D, d |-> gen.d, truncation |-> a.truncation,
                       truncation_percent |-> a.truncation_percent,
                       method |-> Lower(a.method)]))

-----------------------------------------------------------------------------
(* The linear-algebra provider: scipy.linalg.blas and scipy.linalg.lapack *)

\* the outcomes of a BLAS call on an operand without elements.  The wrapper
\* passes a leading dimension of 0, which BLAS rejects: depending on the build
\* the product comes back as zeros, comes back unset, or the call aborts
BlasEmptyOutcomes == {"zeros", "unset", "abort"}

ZeroMatrix(shape) == Arr(shape, [k \in 1..Prod(shape) |-> Zero], "fresh")

BlasOnEmpty(shape, onEmpty) ==
    IF onEmpty = "zeros" THEN ZeroMatrix(shape)
    ELSE IF onEmpty = "unset" THEN Opaque(shape)
    ELSE Raise("BLASAbort")

\* blas.dgemm(alpha=1, a=a, b=b): the matrix product a . b, a new array
dgemm(a, b, onEmpty) ==
    IF IsErr(a) THEN a
    ELSE IF IsErr(b) THEN b
    ELSE IF a.shape[2] # b.shape[1] THEN Raise("fblas.error")
    ELSE IF Size(a) = 0 \/ Size(b) = 0
    THEN BlasOnEmpty(<<a.shape[1], b.shape[2]>>, onEmpty)
    ELSE With2(a.shape[2], b.shape[2], LAMBDA n, c :
             Fresh(<<a.shape[1], c>>, a.known /\ b.known,
                   [k \in 1..(a.shape[1] * c) |->
                       RSumSeq([l \in 1..n |->
                           RMul(a.data[((k - 1) \div c) * n + l],
                                b.data[(l - 1) * c + ((k - 1) % c) + 1])])]))

\* the number of axes of x longer than 1: f2py takes x as a vector when this
\* is at most 1
EffRank(x) == Len(SelectSeq(x.shape, LAMBDA n : n # 1))

\* blas.dgemv(alpha=1, a=a, x=x): the product a . x, a new 1-D array; x may
\* be longer than a has columns
dgemv(a, x, onEmpty) ==
    IF IsErr(a) THEN a
    ELSE IF IsErr(x) THEN x
    ELSE IF EffRank(x) > 1 THEN Raise("ValueError")
    ELSE IF Size(x) < a.shape[2] THEN Raise("fblas.error")
    ELSE IF Size(a) = 0 \/ Size(x) = 0 THEN BlasOnEmpty(<<a.shape[1]>>, onEmpty)
    ELSE With(a.shape[2], LAMBDA n :
             Fresh(<<a.shape[1]>>, a.known /\ x.known,
                   [i \in 1..a.shape[1] |->
                       RSumSeq([l \in 1..n |->
                           RMul(a.data[(i - 1) * n + l], x.data[l])])]))

Min(a, b) == IF a < b THEN a ELSE b

\* the squared Frobenius norm of a known array: the sum of its squared
\* singular values
Frobenius2(a) == RSumSeq([k \in 1..Size(a) |-> RMul(a.data[k], a.data[k])])

AllZero(a) == \A k \in 1..Size(a) : a.data[k] = Zero

Identity(n, sgn) ==
    Arr(<<n, n>>,
        [k \in 1..(n * n) |-> IF (k - 1) \div n = (k - 1) % n THEN Rat(sgn) ELSE Zero],
        "fresh")

\* the spectra the model enumerates for a matrix whose SVD is not rational:
\* all the energy in the first singular value, or spread evenly
Spectra == {"first", "even"}

\* is the SVD of the array a rational: a zero matrix or a single row
ExactSvd(a) == a.known /\ (a.shape[1] = 1 \/ AllZero(a))

\* lap.dgesvd(a) on a 2-D array: [u, s2, vt, ierr].  Singular values are
\* carried as their squares s2 (descending), all the callers use.  The SVD is
\* exact for a zero matrix (u = +-I) and for a single row (u = [[+-1]]);
\* otherwise u is unknown and s2 is one of Spectra with the right total.
\* ierr is the status LAPACK reports; with ierr # 0 the factors are unknown
dgesvd(a, ierr, sgn, spectrum) ==
    IF IsErr(a) THEN a
    ELSE With2(ierr = 0 /\ ExactSvd(a), IF a.known THEN Frobenius2(a) ELSE One,
               LAMBDA exact, total :
             [tag |-> "svd",
              u |-> IF exact THEN Identity(a.shape[1], sgn)
                    ELSE Opaque(<<a.shape[1], a.shape[1]>>),
              s2 |-> Arr(<<Min(a.shape[1], a.shape[2])>>,
                         [i \in 1..Min(a.shape[1], a.shape[2]) |->
                            IF exact \/ spectrum = "first"
                            THEN (IF i = 1 THEN total ELSE Zero)
                            ELSE RDiv(total, Rat(Min(a.shape[1], a.shape[2])))],
                         "fresh"),
              vt |-> Opaque(<<a.shape[2], a.shape[2]>>),
              ierr |-> ierr])

-----------------------------------------------------------------------------
(* Analysis.EnKF and Analysis.Sqrt_KF *)

\* the truncation with strict comparisons: a value equal to the threshold is
\* dropped
TruncateStrict(s2, truncation, truncation_percent) ==
    IF IsNone(truncation)
    THEN With2(RSumSeq(s2), RDiv(truncation_percent.data[1], Rat(100)),
               LAMBDA total, thr :
                   SelectSeq(s2, LAMBDA x : RGe(RDiv(x, total), thr) /\ RDiv(x, total) # thr))
    ELSE SelectSeq(s2, LAMBDA x : RGe(x, truncation.data[1]) /\ x # truncation.data[1])

\* lines 150-160 and 200-210: the squared singular values kept.  s2 is the
\* sequence of squares; truncation is None or a 0-d array
Truncate(s2, truncation, truncation_percent) ==
    IF IsNone(truncation)
    THEN With2(RSumSeq(s2), RDiv(truncation_percent.data[1], Rat(100)),
               LAMBDA total, thr : SelectSeq(s2, LAMBDA x : RGe(RDiv(x, total), thr)))
    ELSE SelectSeq(s2, LAMBDA x : RGe(x, truncation.data[1]))

\* u[:, 0:p] of a 2-D array
SliceCols(u, p) ==
    With2(u.shape[2], Min(p, u.shape[2]), LAMBDA c, q :
        [u EXCEPT !.shape = <<u.shape[1], q>>,
                  !.data = IF u.known
                           THEN [k \in 1..(u.shape[1] * q) |->
                                   u.data[((k - 1) \div q) * c + ((k - 1) % q) + 1]]
                           ELSE <<>>])

\* a - np.mean(a, axis=1)[:, np.newaxis]: the anomalies of an ensemble
Anomalies(a) == NpSub(a, NewAxis(MeanAxis1(a)))

\* 1.0 / s for a sequence s, as a 1-D array
Reciprocals(s) == Arr(<<Len(s)>>, [i \in 1..Len(s) |-> RDiv(One, s[i])], "fresh")

\* what update() hands back: the posterior or the exception, the arrays it
\* wrote in place, and the status of each decomposition it ran
Outcome(ret, written, statuses) ==
    [ret |-> ret, written |-> written, statuses |-> statuses]

\* the posterior accumulated into K: `self.K += K_dash . x4`
EnKF_AaInPlace(K, increment) ==
    IF IsArr(K) /\ IsArr(increment) /\ IsArr(NpAdd(K, increment))
    THEN [NpAdd(K, increment) EXCEPT !.buf = K.buf]
    ELSE NpAdd(K, increment)

\* line 173: Aa = self.K + K_dash . x4, a new array
EnKF_Aa(K, increment) == NpAdd(K, increment)

\* lines 164-175, with the retained squares s_ and u = u[:, 0:p]
EnKF_gain(self, env, H_dash, K_dash, D_dash, s_, u) ==
    LET x1 == NpMul(NewAxis(Reciprocals(s_)), Transpose(u))
        x2 == dgemm(x1, D_dash, env.onEmpty)
        x3 == dgemm(u, x2, env.onEmpty)
        x4 == dgemm(Transpose(H_dash), x3, env.onEmpty)
    IN  Outcome(EnKF_Aa(self.K, dgemm(K_dash, x4, env.onEmpty)), {}, <<env.ierr>>)

\* lines 150-166, with the decomposition of HE
EnKF_truncate(self, env, H_dash, K_dash, D_dash, svd) ==
    LET s_ == Truncate(svd.s2.data, self.truncation, self.truncation_percent)
    IN  EnKF_gain(self, env, H_dash, K_dash, D_dash, s_, SliceCols(svd.u, Len(s_)))

\* lines 147-148.  Line 148 builds a ValueError when ierr # 0 and drops it
EnKF_svd(self, env, H_dash, HE, K_dash, D_dash) ==
    IF IsErr(HE) THEN Outcome(HE, {}, <<>>)
    ELSE IF IsErr(D_dash) THEN Outcome(D_dash, {}, <<>>)
    ELSE EnKF_truncate(self, env, H_dash, K_dash, D_dash,
                       dgesvd(HE, env.ierr, env.sgn, env.spectrum))

\* lines 140-142, with H_dash; inflation_factor is 1.0
EnKF_anomalies(self, env, H_dash) ==
    EnKF_svd(self, env, H_dash, NpAdd(H_dash, NpMul(Scalar(One), self.E)),
             Anomalies(self.K), NpSub(self.D, self.H))

\* lines 127-175.  env holds what the providers decide: ierr, sgn, spectrum
\* of the SVD and the outcome of BLAS on an empty operand
EnKF(self, env) == EnKF_anomalies(self, env, Anomalies(self.H))

\* np.diag(a) of a 2-D array
Diag(a) ==
    IF IsErr(a) THEN a
    ELSE Fresh(<<Min(a.shape[1], a.shape[2])>>, a.known,
               [i \in 1..Min(a.shape[1], a.shape[2]) |->
                   a.data[(i - 1) * a.shape[2] + i]])

\* np.fill_diagonal(a, v): a written in place
FillDiagonal(a, v) ==
    IF IsErr(a) THEN a
    ELSE IF IsErr(v) THEN v
    ELSE [a EXCEPT !.known = a.known /\ v.known,
                   !.data = IF a.known /\ v.known
                            THEN [k \in 1..Size(a) |->
                                    IF (k - 1) \div a.shape[2] = (k - 1) % a.shape[2]
                                    THEN v.data[((k - 1) \div a.shape[2]) + 1]
                                    ELSE a.data[k]]
                            ELSE <<>>]

\* np.power(a, 0.5), known only where every root is rational
NpSqrt(a) ==
    Fresh(a.shape, a.known /\ \A i \in 1..Size(a) : HasRSqrt(a.data[i]),
          [i \in 1..Size(a) |-> RSqrt(a.data[i])])

\* the singular values of a decomposition, from their squares
SingularValues(svd) == NpSqrt(svd.s2)

\* line 238: sig2[sig2 < 0] = 0, written in place
ClipNegative(sig) ==
    [sig EXCEPT !.data = IF sig.known
                         THEN [i \in 1..Size(sig) |->
                                 IF RGe(sig.data[i], Zero) \/ IsNaN(sig.data[i])
                                 THEN sig.data[i] ELSE Zero]
                         ELSE <<>>]

\* lines 240-242: sig2 padded with zeros to length N
PadZeros(sig, N) ==
    IF Size(sig) < N
    THEN Fresh(<<N>>, sig.known,
               [i \in 1..N |-> IF i <= Size(sig) THEN sig.data[i] ELSE Zero])
    ELSE sig

\* scipy.stats.ortho_group.rvs(N): a random orthogonal matrix
OrthoGroup(N) == Opaque(<<N, N>>)

\* line 249: Aa = Ka[:, np.newaxis] + x2, a new array
Sqrt_KF_Aa(Ka, perturbations) == NpAdd(NewAxis(Ka), perturbations)

\* lines 238-249, with the decomposition of c_1.  sig2 is written in place
Sqrt_KF_rotate(self, env, K_dash, Ka_mean, c_1, svd2) ==
    LET clipped == ClipNegative(SingularValues(svd2))
        sig2 == PadZeros(NpSqrt(clipped), self.K.shape[2])
        x2a == NpMul(svd2.u, Reshape(sig2, <<1, Size(sig2)>>))
        x2b == dgemm(x2a, svd2.vt, env.onEmpty)
        x2c == dgemm(K_dash, x2b, env.onEmpty)
        theta == OrthoGroup(self.K.shape[2])
        x2d == dgemm(x2c, Transpose(theta), env.onEmpty)
    IN  Outcome(Sqrt_KF_Aa(Ka_mean, x2d), {c_1, clipped}, <<env.ierr, env.ierr2>>)

\* line 237, with c_1 = I - Y(C^-1)Y.  The status of this decomposition is
\* not read
Sqrt_KF_svd2(self, env, K_dash, Ka_mean, c_1) ==
    IF IsErr(c_1) THEN Outcome(c_1, {}, <<env.ierr>>)
    ELSE Sqrt_KF_rotate(self, env, K_dash, Ka_mean, c_1,
                        dgesvd(c_1, env.ierr2, env.sgn, env.spectrum))

\* lines 233-234, with c_1 = H_dash.T . C^-1 . H_dash; c_1 is written in place
Sqrt_KF_fill(self, env, K_dash, Ka_mean, c_1) ==
    Sqrt_KF_svd2(self, env, K_dash, Ka_mean,
                 FillDiagonal(c_1, NpSub(Scalar(One), Diag(c_1))))

\* lines 226-232, with the analysed mean Ka
Sqrt_KF_c_1(self, env, H_dash, K_dash, svd, p, u_, Ka_mean) ==
    IF IsErr(Ka_mean) THEN Outcome(Ka_mean, {}, <<env.ierr>>)
    ELSE LET sig == Reciprocals(SubSeq(svd.s2.data, 1, p))
             x2 == NpMul(NewAxis(sig), Transpose(u_))
             c_1a == dgemm(u_, x2, env.onEmpty)
             c_1b == dgemm(c_1a, H_dash, env.onEmpty)
         IN  Sqrt_KF_fill(self, env, K_dash, Ka_mean,
                          dgemm(Transpose(H_dash), c_1b, env.onEmpty))

\* lines 214-223, with the retained squares s_ and u_ = u[:, 0:p]
Sqrt_KF_mean(self, env, innov, H_dash, K_dash, svd, s_, u_) ==
    LET x1 == NpMul(NewAxis(Reciprocals(s_)), Transpose(u_))
        x2 == dgemv(x1, innov, env.onEmpty)
        x3 == dgemv(u_, x2, env.onEmpty)
        x4 == dgemv(Transpose(H_dash), x3, env.onEmpty)
        prior_k_mean == MeanAxis1(self.K)
    IN  Sqrt_KF_c_1(self, env, H_dash, K_dash, svd, Len(s_), u_,
                    NpAdd(prior_k_mean, dgemv(K_dash, x4, env.onEmpty)))

\* lines 198-216, with the decomposition of HE
Sqrt_KF_truncate(self, env, innov, H_dash, K_dash, svd) ==
    LET s_ == Truncate(svd.s2.data, self.truncation, self.truncation_percent)
    IN  Sqrt_KF_mean(self, env, innov, H_dash, K_dash, svd, s_,
                     SliceCols(svd.u, Len(s_)))

\* lines 195-196.  Line 196 builds a ValueError when ierr # 0 and drops it
Sqrt_KF_svd(self, env, innov, H_dash, HE, K_dash) ==
    IF IsErr(innov) THEN Outcome(innov, {}, <<>>)
    ELSE IF IsErr(HE) THEN Outcome(HE, {}, <<>>)
    ELSE Sqrt_KF_truncate(self, env, innov, H_dash, K_dash,
                          dgesvd(HE, env.ierr, env.sgn, env.spectrum))

\* lines 191-192, with H_dash
Sqrt_KF_anomalies(self, env, innov, H_dash) ==
    Sqrt_KF_svd(self, env, innov, H_dash, NpAdd(H_dash, self.E), Anomalies(self.K))

\* lines 177-251; line 187 is innov = self.d - prior_h_mean
Sqrt_KF(self, env) ==
    Sqrt_KF_anomalies(self, env, NpSub(self.d, MeanAxis1(self.H)), Anomalies(self.H))

\* lines 117-125
update(self, env) ==
    IF self.method = "enkf" THEN EnKF(self, env)
    ELSE IF self.method = "sqrtkf" THEN Sqrt_KF(self, env)
    ELSE Outcome(Raise("ValueError"), {}, <<>>)

-----------------------------------------------------------------------------
(* The caller's arguments *)

Rows == 1..MaxM
Cols == 2..MaxN

\* the values the caller's arrays hold: in the degenerate scenario every
\* column of H equals d, E is zero and D = d + E; in the generic one nothing
\* coincides
Scenarios == {"degenerate", "generic"}

Matrix(m, n, buf, F(_, _)) ==
    Arr(<<m, n>>, [k \in 1..(m * n) |-> Rat(F(((k - 1) \div n) + 1, ((k - 1) % n) + 1))], buf)

ArgH(m, n, scen) ==
    IF scen = "degenerate" THEN Matrix(m, n, "H", LAMBDA i, j : i)
    ELSE Matrix(m, n, "H", LAMBDA i, j : i + j)

ArgK(m, n) == Matrix(m, n, "K", LAMBDA i, j : i * j)

ArgE(m, n, scen) ==
    IF scen = "degenerate" THEN Matrix(m, n, "E", LAMBDA i, j : 0)
    ELSE Matrix(m, n, "E", LAMBDA i, j : j - 1)

ArgD(m, n, scen) ==
    IF scen = "degenerate" THEN Matrix(m, n, "D", LAMBDA i, j : i)
    ELSE Matrix(m, n, "D", LAMBDA i, j : i + 2 * j)

ArgR(m) == Matrix(m, m, "R", LAMBDA i, j : IF i = j THEN 1 ELSE 0)

\* d holding 1, 2, ... in the given shape
Argd(shape) == Arr(shape, [k \in 1..Prod(shape) |-> Rat(k)], "d")

Methods == {"EnKF", "sqrtkf", "etkf"}

\* (truncation, truncation_percent): the default 0.01 percent, 100 percent,
\* and the explicit thresholds 0 and 1
TruncationSpecs ==
    {<<None, Scalar(<<1, 100>>)>>, <<None, Scalar(Rat(100))>>,
     <<Scalar(Zero), Scalar(<<1, 100>>)>>, <<Scalar(One), Scalar(<<1, 100>>)>>}

\* a row count other than m, a column count other than n
OtherRows(m) == IF m > 1 THEN m - 1 ELSE m + 1
OtherCols(n) == n + 1

\* the one dimension of a call that disagrees with H, if any
Mismatches == {"none", "Kcols", "Erows", "Ecols", "Drows", "Dcols", "dlen", "Rdim"}

\* the shapes of a call: H is m x N and K is n x N up to the mismatch; E, D,
\* R are given or not; d is absent, a 1-D vector, a column or a row; the
\* errors are specified by err_std, by err_perc or not at all
Layouts ==
    [m : Rows, N : Cols, n : 1..MaxStates, scen : Scenarios, mismatch : Mismatches,
     hasE : BOOLEAN, hasD : BOOLEAN, hasR : BOOLEAN,
     dKind : {"none", "vector", "column", "row"}, err : {"none", "std", "perc"}]

dLength(l) == IF l.mismatch = "dlen" THEN OtherRows(l.m) ELSE l.m

\* the layouts the model enumerates: at most one mismatch, on an argument
\* that is given; coinciding values only with matching shapes; R only without
\* E, and err_std / err_perc only without E, R, D and with d, where the
\* constructor reads them
Enumerated(l) ==
    /\ l.mismatch \in {"Erows", "Ecols"} => l.hasE
    /\ l.mismatch \in {"Drows", "Dcols"} => l.hasD
    /\ l.mismatch = "dlen" => l.dKind # "none"
    /\ l.mismatch = "Rdim" => l.hasR
    /\ l.scen = "degenerate" => l.mismatch = "none"
    /\ l.hasR => ~l.hasE
    /\ l.err # "none" => (~l.hasE /\ ~l.hasR /\ ~l.hasD /\ l.dKind # "none")
    /\ l.dKind = "row" => dLength(l) > 1

\* Analysis(K, H, D, d, R, method, err_std, err_perc, E, truncation,
\* truncation_percent): the arguments of a call with layout l
Call(l, method, ts) ==
        [K |-> ArgK(l.n, IF l.mismatch = "Kcols" THEN OtherCols(l.N) ELSE l.N),
         H |-> ArgH(l.m, l.N, l.scen),
         D |-> IF l.hasD
               THEN ArgD(IF l.mismatch = "Drows" THEN OtherRows(l.m) ELSE l.m,
                         IF l.mismatch = "Dcols" THEN OtherCols(l.N) ELSE l.N, l.scen)
               ELSE None,
         d |-> IF l.dKind = "none" THEN None
               ELSE Argd(IF l.dKind = "vector" THEN <<dLength(l)>>
                         ELSE IF l.dKind = "column" THEN <<dLength(l), 1>>
                         ELSE <<1, dLength(l)>>),
         R |-> IF l.hasR
               THEN ArgR(IF l.mismatch = "Rdim" THEN OtherRows(l.m) ELSE l.m)
               ELSE None,
         E |-> IF l.hasE
               THEN ArgE(IF l.mismatch = "Erows" THEN OtherRows(l.m) ELSE l.m,
                         IF l.mismatch = "Ecols" THEN OtherCols(l.N) ELSE l.N, l.scen)
               ELSE None,
         method |-> method,
         err_std |-> IF l.err = "std" THEN Scalar(One) ELSE None,
         err_perc |-> IF l.err = "perc" THEN Scalar(<<1, 2>>) ELSE None,
         truncation |-> ts[1],
         truncation_percent |-> ts[2]]

\* an unsupported method is enumerated with the default truncation only
Options ==
    {<<method, ts>> \in Methods \X TruncationSpecs :
        method = "etkf" => ts = <<None, Scalar(<<1, 100>>)>>}

Calls ==
    {Call(x[1], x[2][1], x[2][2]) : x \in {l \in Layouts : Enumerated(l)} \X Options}

-----------------------------------------------------------------------------
(* The truncation step alone, on lists of singular values *)

\* np.power(s, 2.0) on a list of integer singular values
Squares(s) == [i \in 1..Len(s) |-> Rat(s[i] * s[i])]

\* lines 150-160 and 200-210: p for the singular values s, under the explicit
\* threshold t, or under truncation_percent = t with truncation unset
Retain(s, explicit, t) ==
    Len(Truncate(Squares(s), IF explicit THEN Scalar(t) ELSE None,
                 IF explicit THEN Scalar(<<1, 100>>) ELSE Scalar(t)))

\* the lists of singular values, as LAPACK returns them: descending
DescendingLists ==
    {s \in UNION {[1..k -> 0..MaxSigma] : k \in 1..MaxLen} :
        \A i \in 1..(Len(s) - 1) : s[i] >= s[i + 1]}

\* explicit thresholds: non-negative, up to above the largest square
ExplicitThresholds == {Rat(t) : t \in 0..(MaxSigma * MaxSigma + 1)}

\* percentages: 0, the default 0.01, and the equal shares 100 / k
PercentThresholds == {Zero, <<1, 100>>} \cup {RDiv(Rat(100), Rat(k)) : k \in 1..MaxLen}

\* a list, a kind of threshold and two thresholds t1 <= t2; p is <<>> until
\* the truncation ran and <<p under t1, p under t2>> after
TruncInputs ==
    {[s |-> x[1], explicit |-> x[2], t1 |-> x[3], t2 |-> x[4], p |-> <<>>] :
        x \in {y \in DescendingLists \X BOOLEAN \X (ExplicitThresholds \cup PercentThresholds)
                      \X (ExplicitThresholds \cup PercentThresholds) :
                 /\ y[3] \in (IF y[2] THEN ExplicitThresholds ELSE PercentThresholds)
                 /\ y[4] \in (IF y[2] THEN ExplicitThresholds ELSE PercentThresholds)
                 /\ RGe(y[4], y[3])}}

NoTrunc == [s |-> <<>>, explicit |-> FALSE, t1 |-> Zero, t2 |-> Zero, p |-> <<>>]

-----------------------------------------------------------------------------
(* The state machine: one call of the constructor, then calls of update() *)

VARIABLES
    args,      \* the arguments of the call, as the caller passed them
    mem,       \* the contents of the caller's arrays K, H, D, d, R, E now
    self,      \* the Analysis object, None before the call, or the exception raised
    Ka,        \* what the last update() returned or raised, None before
    pc,        \* "start", "constructed" or "raised"; "truncation" in SpecTrunc
    calls,     \* the number of calls of update() made
    provider,  \* what numpy, BLAS and LAPACK decided in the calls made so far
    trunc      \* the input and result of the truncation step in SpecTrunc

vars == <<args, mem, self, Ka, pc, calls, provider, trunc>>

\* the caller's arrays, and the arrays the constructor allocates for the object
Buffers == {"K", "H", "D", "d", "R", "E"}
OwnedBuffers == {"self.E", "self.D", "self.d"}

\* did one of the arrays vs, a view of buffer b, get other elements than old
Written(old, b, vs) ==
    {v \in vs : IsArr(v) /\ v.buf = b /\ (v.data # old.data \/ v.known # old.known)}

\* the contents of buffer b after the arrays vs were produced: an array that
\* views b with other elements than b holds has been written through
Commit(old, b, vs) ==
    With(Written(old, b, vs), LAMBDA w :
        IF w = {} THEN old
        ELSE With(CHOOSE v \in w : TRUE, LAMBDA v :
                 [old EXCEPT !.data = v.data, !.known = v.known]))

CommitAll(m, vs) ==
    [b \in Buffers |-> IF IsArr(m[b]) THEN Commit(m[b], b, vs) ELSE m[b]]

\* the fields of the object that hold arrays
ArrayFields == {"K", "H", "R", "E", "D", "d"}

Fields(o) == IF o.tag = "obj" THEN {o[f] : f \in ArrayFields} ELSE {}

\* the object with the arrays the constructor allocated (lines 67-68, 79-86,
\* 103) held in buffers of its own
Own(o) ==
    IF o.tag = "obj"
    THEN [f \in DOMAIN o |->
            IF f \in ArrayFields /\ IsArr(o[f]) /\ o[f].buf = "fresh"
            THEN [o[f] EXCEPT !.buf = "self." \o f]
            ELSE o[f]]
    ELSE o

\* the object after the arrays vs were produced
CommitFields(o, vs) ==
    [f \in DOMAIN o |->
        IF f \in ArrayFields /\ IsArr(o[f]) /\ o[f].buf \in (Buffers \cup OwnedBuffers)
        THEN Commit(o[f], o[f].buf, vs)
        ELSE o[f]]

\* the provider's decisions during update(): the status of each
\* decomposition, the sign of an exact u or the spectrum of an inexact one,
\* and the outcome of BLAS on an empty operand
Env(ierr, ierr2, sgn, spectrum, onEmpty) ==
    [ierr |-> ierr, ierr2 |-> ierr2, sgn |-> sgn, spectrum |-> spectrum,
     onEmpty |-> onEmpty]

NoProvider ==
    [seed |-> 1, rankOk |-> TRUE, env |-> Env(0, 0, 1, "first", "zeros"), statuses |-> <<>>]

Init ==
    /\ args \in Calls
    /\ mem = [b \in Buffers |-> args[b]]
    /\ self = None
    /\ Ka = None
    /\ pc = "start"
    /\ calls = 0
    /\ provider = NoProvider
    /\ trunc = NoTrunc

\* the draws of np.random.randn the call can see: lines 79 and 82
Seeds(a) ==
    IF IsNone(a.err_std) /\ IsNone(a.err_perc) THEN {1} ELSE 1..MaxSeed

\* np.rank exists or not in the numpy build; line 99 is reached only when D
\* is absent
RankBuilds(a) == IF IsNone(a.D) THEN BOOLEAN ELSE {TRUE}

\* Analysis(...): the object is built, or the constructor raises
Construct ==
    /\ pc = "start"
    /\ \E seed \in Seeds(args), rankOk \in RankBuilds(args) :
          \E o \in {Own(AnalysisInit(args, seed, rankOk))} :
              /\ self' = o
              /\ pc' = IF IsErr(o) THEN "raised" ELSE "constructed"
              /\ mem' = CommitAll(mem, Fields(o))
              /\ provider' = [provider EXCEPT !.seed = seed, !.rankOk = rankOk]
    /\ UNCHANGED <<args, Ka, calls, trunc>>

\* H_dash + E, the matrix both algorithms decompose (lines 139-140, 190-191)
InnovationFactor(o) == NpAdd(Anomalies(o.H), o.E)

\* the number p of singular values both algorithms keep
Retained(o, HE, ierr, sgn, spectrum) ==
    Len(Truncate(dgesvd(HE, ierr, sgn, spectrum).s2.data,
                 o.truncation, o.truncation_percent))

\* the factors dgesvd can return for HE: the sign of u where the model knows
\* the decomposition, the spectrum where it does not
Factors(HE, ierr) ==
    IF ierr = 0 /\ ExactSvd(HE) THEN {<<1, "first">>, <<-1, "first">>}
    ELSE {<<1, spectrum>> : spectrum \in Spectra}

\* what the providers may decide during o.update().  A choice the call does
\* not depend on is fixed: the second status outside Sqrt_KF, the outcome of
\* BLAS on an empty operand unless nothing is retained
Envs(o) ==
    With(InnovationFactor(o), LAMBDA HE :
        IF o.method \notin {"enkf", "sqrtkf"} \/ ~IsArr(HE)
        THEN {Env(0, 0, 1, "first", "zeros")}
        ELSE UNION {
                 {Env(x[1], ierr2, x[2][1], x[2][2], onEmpty) :
                      ierr2 \in IF o.method = "sqrtkf" THEN {0, 1} ELSE {0},
                      onEmpty \in IF Retained(o, HE, x[1], x[2][1], x[2][2]) = 0
                                  THEN BlasEmptyOutcomes ELSE {"zeros"}}
                 : x \in UNION {{<<ierr, f>> : f \in Factors(HE, ierr)} : ierr \in {0, 1}} })

\* self.update(): a posterior is returned, or update() raises
Update ==
    /\ pc = "constructed"
    /\ calls < MaxUpdates
    /\ calls' = calls + 1
    /\ \E env \in Envs(self) :
          \E out \in {update(self, env)} :
          \E vs \in {{out.ret} \cup out.written} :
              /\ Ka' = out.ret
              /\ mem' = CommitAll(mem, vs)
              /\ self' = CommitFields(self, vs)
              /\ provider' = [provider EXCEPT !.env = env, !.statuses = out.statuses]
    /\ UNCHANGED <<args, pc, trunc>>

Next == Construct \/ Update

Spec == Init /\ [][Next]_vars

\* a call the truncation step alone does not depend on
IdleCall ==
    Call([m |-> 1, N |-> 2, n |-> 1, scen |-> "generic", mismatch |-> "none",
          hasE |-> TRUE, hasD |-> TRUE, hasR |-> FALSE, dKind |-> "none", err |-> "none"],
         "EnKF", <<None, Scalar(<<1, 100>>)>>)

InitTrunc ==
    /\ args = IdleCall
    /\ mem = [b \in Buffers |-> args[b]]
    /\ self = None
    /\ Ka = None
    /\ pc = "truncation"
    /\ calls = 0
    /\ provider = NoProvider
    /\ trunc \in TruncInputs

\* lines 150-160 and 200-210 applied to trunc.s under both thresholds
Select ==
    /\ pc = "truncation"
    /\ trunc.p = <<>>
    /\ trunc' = [trunc EXCEPT !.p = <<Retain(trunc.s, trunc.explicit, trunc.t1),
                                      Retain(trunc.s, trunc.explicit, trunc.t2)>>]
    /\ UNCHANGED <<args, mem, self, Ka, pc, calls, provider>>

NextTrunc == Select

SpecTrunc == InitTrunc /\ [][NextTrunc]_vars

-----------------------------------------------------------------------------
(* Properties *)

Supported == {"enkf", "sqrtkf"}

\* one of the dimensions of the call disagrees with H: rows or columns of E,
\* the dimension of R, rows of D, or the columns (ensemble size) of K
Mismatched(a) ==
    \/ IsArr(a.E) /\ a.E.shape[1] # a.H.shape[1]
    \/ IsArr(a.E) /\ a.E.shape[2] # a.H.shape[2]
    \/ IsArr(a.R) /\ a.R.shape # <<a.H.shape[1], a.H.shape[1]>>
    \/ IsArr(a.D) /\ a.D.shape[1] # a.H.shape[1]
    \/ a.K.shape[2] # a.H.shape[2]

\* every array of the call has the dimensions H gives it
Consistent(a) ==
    /\ ~Mismatched(a)
    /\ IsArr(a.D) => a.D.shape = a.H.shape
    /\ IsArr(a.d) => Size(a.d) = a.H.shape[1]

\* d is a 1-D vector or a column
VectorOrColumn(a) ==
    IsArr(a.d) => a.d.shape \in {<<a.H.shape[1]>>, <<a.H.shape[1], 1>>}

\* the call gives what E is made of: E itself, or err_std or err_perc
\* where the constructor reads them
ErrorsAvailable(a) ==
    \/ IsArr(a.E)
    \/ IsNone(a.R) /\ (IsArr(a.err_std) \/ IsArr(a.err_perc))

\* E is all zeros and D - H is the zero matrix
DegenerateCase(o) ==
    /\ IsArr(o.E) /\ o.E.known /\ AllZero(o.E)
    /\ IsArr(o.D) /\ o.D.known /\ o.D.shape = o.H.shape /\ o.D.data = o.H.data

\* every row of the known 2-D array E has mean zero
RowMeansZero(E) ==
    \A i \in 1..E.shape[1] :
        RSumSeq([j \in 1..E.shape[2] |-> E.data[(i - 1) * E.shape[2] + j]]) = Zero

\* D[i, j] = d[i] + E[i, j] for the column d
SumOfdAndE(D, d, E) ==
    \A i \in 1..D.shape[1], j \in 1..D.shape[2] :
        D.data[(i - 1) * D.shape[2] + j] = RAdd(d.data[i], E.data[(i - 1) * D.shape[2] + j])

\* the truncation step ran
TruncDone == pc = "truncation" /\ trunc.p # <<>>

\* does the largest squared singular value (explicit threshold), or its share
\* of the sum of squares (percentage), reach the threshold t
Reaches(s, explicit, t) ==
    IF explicit THEN RGe(Rat(s[1] * s[1]), t)
    ELSE RGe(RDiv(Rat(s[1] * s[1]), RSumSeq(Squares(s))), RDiv(t, Rat(100)))

\* C1: a call with a dimension mismatch (E rows, E columns, R, D rows, or K
\* columns against H) makes the constructor raise, and update() never runs.
MismatchRaises ==
    (pc # "start" /\ Mismatched(args)) => (pc = "raised" /\ calls = 0)

\* C2: no Analysis object holds a method other than 'enkf' or 'sqrtkf': the
\* constructor fails on an unsupported method name.
UnsupportedMethodRejected ==
    pc = "constructed" => self.method \in Supported

\* C3: when a decomposition run by update() reports a non-zero status,
\* update() raises and returns no posterior.
SvdFailureAborts ==
    (\E i \in 1..Len(provider.statuses) : provider.statuses[i] # 0) => IsErr(Ka)

\* C4: for a constructed Analysis with consistent dimensions, a supported
\* method, d given as a 1-D vector or a column or taken from D, update()
\* returns a matrix of the shape of K (where BLAS did not abort on an empty
\* operand).
PosteriorHasShapeOfK ==
    (/\ pc = "constructed" /\ calls > 0
     /\ Consistent(args) /\ VectorOrColumn(args)
     /\ self.method \in Supported /\ IsArr(self.d)
     /\ provider.env.onEmpty # "abort")
    => (IsArr(Ka) /\ Ka.shape = args.K.shape)

\* C5 as stated: over a descending list of singular values and thresholds
\* t1 <= t2, p under t2 is at most p under t1, and p >= 1 under either
\* threshold whenever some singular value is non-zero.
TruncationKeepsOne ==
    TruncDone =>
        /\ trunc.p[2] <= trunc.p[1]
        /\ (\E i \in 1..Len(trunc.s) : trunc.s[i] # 0) =>
               (trunc.p[1] >= 1 /\ trunc.p[2] >= 1)

\* C5 as amended: p under t2 is at most p under t1, and p >= 1 exactly when
\* the largest squared singular value (explicit threshold) or its share of
\* the sum of squares (percentage) reaches the threshold.
TruncationMonotone ==
    TruncDone =>
        /\ trunc.p[2] <= trunc.p[1]
        /\ (trunc.p[1] >= 1) <=> Reaches(trunc.s, trunc.explicit, trunc.t1)
        /\ (trunc.p[2] >= 1) <=> Reaches(trunc.s, trunc.explicit, trunc.t2)

\* the larger threshold retains fewer singular values than the smaller, and
\* still one
TruncationBites ==
    TruncDone /\ trunc.p[2] < trunc.p[1] /\ trunc.p[2] >= 1

\* C6: the caller's arrays K, H, D, d, E, R hold their original values
\* after the constructor and after every update(), the fields of the object
\* are those the constructor stored, and the posterior is a new array.
InputsNotMutated ==
    /\ \A b \in Buffers : mem[b] = args[b]
    /\ pc = "constructed" =>
           self = Own(AnalysisInit(args, provider.seed, provider.rankOk))
    /\ IsArr(Ka) => Ka.buf = "fresh"

\* update() returned a posterior whose elements differ from those of K
PosteriorDiffersFromK ==
    /\ pc = "constructed" /\ calls > 0
    /\ IsArr(Ka) /\ Ka.known /\ Ka.shape = args.K.shape /\ Ka.data # args.K.data

\* C7: with E all zeros and D - H zero, update() with method 'enkf' returns
\* a posterior equal to K (the decomposition succeeding and BLAS returning
\* zeros on an empty operand).
DegeneratePosteriorIsPrior ==
    (/\ pc = "constructed" /\ calls > 0
     /\ self.method = "enkf"
     /\ Consistent(args) /\ DegenerateCase(self)
     /\ provider.env.ierr = 0 /\ provider.env.onEmpty = "zeros")
    => (IsArr(Ka) /\ Ka.known /\ Ka.shape = self.K.shape /\ Ka.data = self.K.data)

\* C8: with E absent, R of H's row count squared, and D and d given with
\* consistent dimensions, the constructor builds the object.
ConsistentRAccepted ==
    (/\ pc # "start"
     /\ IsNone(args.E) /\ IsArr(args.R) /\ IsArr(args.D) /\ IsArr(args.d)
     /\ Consistent(args))
    => pc = "constructed"

\* C9: when the constructor derives E from D (E and R absent, D given), every
\* row of the stored E has mean zero.
DerivedErrorsCentred ==
    (/\ pc = "constructed"
     /\ IsNone(args.E) /\ IsNone(args.R) /\ IsArr(args.D))
    => (IsArr(self.E) /\ self.E.known /\ RowMeansZero(self.E))

\* C10: with D absent, d of length m given as a vector, a row or a column,
\* and E available, the constructor succeeds (in a numpy that has np.rank),
\* stores d as an m x 1 column and D = d + E of shape m x N.
GeneratedDIsdPlusE ==
    (/\ pc # "start"
     /\ IsNone(args.D) /\ IsArr(args.d) /\ ErrorsAvailable(args)
     /\ Consistent(args)
     /\ provider.rankOk)
    => /\ pc = "constructed"
       /\ self.d.shape = <<args.H.shape[1], 1>>
       /\ self.D.shape = args.H.shape
       /\ (self.D.known /\ self.E.known) => SumOfdAndE(self.D, self.d, self.E)

=============================================================================
